---- MODULE Spec2Model ----
(***************************************************************************)
(* The Onto-X ontology index: load_ontology builds id_to_label,            *)
(* label_to_id and graph from the rows of a CSV source; the /ancestors     *)
(* handler resolves a query with find_entity_id and runs the breadth-first *)
(* traversal get_ancestors_with_depth; the /search handler scans the       *)
(* labels.                                                                 *)
(*                                                                         *)
(* A Python str is a sequence of one-character strings, so that strip,     *)
(* lower and split are computed character by character.  A dict is a       *)
(* function; Optional[str] is <<>> (None) or <<s>>.                        *)
(***************************************************************************)
EXTENDS Integers, Sequences, FiniteSets, TLC

\* The largest number of rows of a source file
MaxRows == 3

\* "http://www.w3.org/2002/07/owl#Thing", abbreviated to one upper-case letter.
Sentinel == <<"T">>

Whitespace == {" "}

None == <<>>

Some(s) == <<s>>

EmptyDict == [k \in {} |-> <<>>]

\* d[k] = v
Put(d, k, v) == [x \in (DOMAIN d) \cup {k} |-> IF x = k THEN v ELSE d[x]]

---------------------------------------------------------------------------
\* str methods

RECURSIVE lstrip(_)
lstrip(s) ==
  IF s = <<>> THEN s
  ELSE IF Head(s) \in Whitespace THEN lstrip(Tail(s)) ELSE s

RECURSIVE rstrip(_)
rstrip(s) ==
  IF s = <<>> THEN s
  ELSE IF s[Len(s)] \in Whitespace THEN rstrip(SubSeq(s, 1, Len(s) - 1)) ELSE s

strip(s) == rstrip(lstrip(s))

lower_char(c) ==
  CASE c = "A" -> "a"
    [] c = "T" -> "t"
    [] OTHER -> c

lower(s) == [i \in 1..Len(s) |-> lower_char(s[i])]

\* s.split('|'): n separators give n + 1 tokens, empty ones included
RECURSIVE split(_)
split(s) ==
  IF \A i \in 1..Len(s) : s[i] # "|" THEN <<s>>
  ELSE LET i == CHOOSE j \in 1..Len(s) :
                  s[j] = "|" /\ \A k \in 1..(j - 1) : s[k] # "|"
       IN  <<SubSeq(s, 1, i - 1)>> \o split(SubSeq(s, i + 1, Len(s)))

\* sub in s
contains(sub, s) ==
  \E i \in 0..(Len(s) - Len(sub)) : SubSeq(s, i + 1, i + Len(sub)) = sub

---------------------------------------------------------------------------
\* The rows a source file is made of: any sequence of at most MaxRows of these.
Records ==
  { [id |-> <<"a">>,      label |-> <<"A", " ">>, parents |-> <<"b", "|", "c">>],
    [id |-> <<" ", "b">>, label |-> <<"A">>,      parents |-> <<"c">>],
    [id |-> <<"c">>,      label |-> <<"A">>,      parents |-> <<"T", "|", " ", "a", " ">>],
    [id |-> <<"a">>,      label |-> <<"a">>,      parents |-> <<"b">>],
    [id |-> <<"b">>,      label |-> <<"a">>,      parents |-> <<>>],
    [id |-> <<" ">>,      label |-> <<"x">>,      parents |-> <<"a">>],
    [id |-> <<"c">>,      label |-> <<"T">>,      parents |-> <<"c">>],
    [id |-> <<"T">>,      label |-> <<"T">>,      parents |-> <<"b">>],
    [id |-> <<"b">>,      label |-> <<"x">>,      parents |-> <<"c", "|", "T", "|", "c">>],
    [id |-> <<"c">>,      label |-> <<"a">>,      parents |-> <<" ">>] }

\* The query strings of /ancestors requests
Queries ==
  { <<"a">>, <<" ", "A">>, <<"b">>, <<"c">>, <<"T">>, <<"x">>, <<" ">>, <<"z">> }

\* The query strings of /search requests
SearchQueries == { <<"A">>, <<"t">> }

NoResponse == [status |-> 0, body |-> EmptyDict]

VARIABLES
  phase,          \* "load" while load_ontology reads rows, then "serve"
  rows,           \* the rows read so far, in source order
  id_to_label,
  id_keys,        \* insertion order of id_to_label's keys
  label_to_id,
  graph,
  pc,             \* the /ancestors handler: "idle" or "bfs"
  query,          \* its argument
  class_id,       \* what find_entity_id returned to it
  queue,
  visited,
  relationships,
  response,       \* its last answer
  suggestions     \* the last answer of /search

index == <<id_to_label, id_keys, label_to_id, graph>>
request == <<pc, query, class_id, queue, visited, relationships, response>>
vars == <<phase, rows, id_to_label, id_keys, label_to_id, graph, pc, query,
          class_id, queue, visited, relationships, response, suggestions>>

---------------------------------------------------------------------------
\* load_ontology

update_id_to_label(d, cid, label) == Put(d, cid, label)

\* setdefault instead of assignment: the first id of a label is kept
update_label_to_id_keep_first(d, label, cid) ==
  IF lower(label) \in DOMAIN d THEN d ELSE Put(d, lower(label), cid)

update_label_to_id(d, label, cid) == Put(d, lower(label), cid)

\* graph is a defaultdict(list): extend appends to what the key already holds
update_graph(g, cid, parents) ==
  IF parents # <<>>
  THEN LET toks == split(parents)
           parent_list == [i \in 1..Len(toks) |-> strip(toks[i])]
       IN  Put(g, cid, (IF cid \in DOMAIN g THEN g[cid] ELSE <<>>) \o parent_list)
  ELSE Put(g, cid, <<>>)

LoadRow(row) ==
  /\ phase = "load"
  /\ Len(rows) < MaxRows
  /\ LET cid     == strip(row.id)
         label   == strip(row.label)
         parents == strip(row.parents)
     IN  /\ id_to_label' = update_id_to_label(id_to_label, cid, label)
         /\ id_keys' = IF cid \in DOMAIN id_to_label THEN id_keys
                       ELSE Append(id_keys, cid)
         /\ label_to_id' = update_label_to_id(label_to_id, label, cid)
         /\ graph' = update_graph(graph, cid, parents)
  /\ rows' = Append(rows, row)
  /\ UNCHANGED <<phase, request, suggestions>>

\* end of file: return id_to_label, label_to_id, dict(graph)
LoadDone ==
  /\ phase = "load"
  /\ phase' = "serve"
  /\ UNCHANGED <<rows, index, request, suggestions>>

---------------------------------------------------------------------------
\* find_entity_id

\* the two lookups in the other order
find_entity_id_label_first(q, i2l, l2i) ==
  LET stripped == strip(q)
      q_lower  == lower(stripped)
  IN  IF q_lower \in DOMAIN l2i THEN Some(l2i[q_lower])
      ELSE IF stripped \in DOMAIN i2l THEN Some(stripped)
      ELSE None

find_entity_id(q, i2l, l2i) ==
  LET stripped == strip(q)
      q_lower  == lower(stripped)
  IN  IF stripped \in DOMAIN i2l THEN Some(stripped)
      ELSE IF q_lower \in DOMAIN l2i THEN Some(l2i[q_lower])
      ELSE None

\* Python's "not class_id": None and the empty str are both falsy
falsy(r) == r = None \/ r[1] = <<>>

---------------------------------------------------------------------------
\* get_ancestors_with_depth

initial_queue(cid) == << <<cid, 0>> >>

\* visited = set()
initial_visited_empty(cid) == {}

initial_visited(cid) == {cid}

\* graph.get(current_id, [])
graph_get(g, current_id) == IF current_id \in DOMAIN g THEN g[current_id] ELSE <<>>

\* graph[current_id] on the defaultdict: a missing key is inserted
graph_after_get_defaultdict(g, current_id) ==
  IF current_id \in DOMAIN g THEN g ELSE Put(g, current_id, <<>>)

\* graph is a plain dict after load: a get of a missing key inserts nothing
graph_after_get(g, current_id) == g

\* no exclusion of owl#Thing
is_sentinel_never(parent_id) == FALSE

is_sentinel(parent_id) == parent_id = Sentinel

\* "break" instead of "continue"
after_sentinel_break(ps) == <<>>

\* "continue": the parents after the sentinel are still examined
after_sentinel(ps) == Tail(ps)

\* no visited check
already_visited_never(parent_id, v) == FALSE

already_visited(parent_id, v) == parent_id \in v

record(rel, i2l, parent_id, depth) ==
  IF parent_id \in DOMAIN i2l THEN Put(rel, i2l[parent_id], depth) ELSE rel

\* the for loop over the parents of the dequeued id
RECURSIVE visit_parents(_, _, _, _)
visit_parents(ps, current_depth, i2l, st) ==
  IF ps = <<>> THEN st
  ELSE LET parent_id == Head(ps) IN
    IF is_sentinel(parent_id)
    THEN visit_parents(after_sentinel(ps), current_depth, i2l, st)
    ELSE IF ~already_visited(parent_id, st.visited)
    THEN visit_parents(Tail(ps), current_depth, i2l,
           [visited       |-> st.visited \cup {parent_id},
            relationships |-> record(st.relationships, i2l, parent_id, current_depth + 1),
            queue         |-> Append(st.queue, <<parent_id, current_depth + 1>>)])
    ELSE visit_parents(Tail(ps), current_depth, i2l, st)

\* one iteration of "while queue": popleft, then the for loop
bfs_iteration(st, g, i2l) ==
  LET current_id    == Head(st.queue)[1]
      current_depth == Head(st.queue)[2]
  IN  visit_parents(graph_get(g, current_id), current_depth, i2l,
        [visited |-> st.visited, relationships |-> st.relationships,
         queue |-> Tail(st.queue)])

RECURSIVE bfs_run(_, _, _)
bfs_run(st, g, i2l) ==
  IF st.queue = <<>> THEN st.relationships ELSE bfs_run(bfs_iteration(st, g, i2l), g, i2l)

\* the whole call, run without interruption
get_ancestors_with_depth(cid, g, i2l) ==
  bfs_run([visited |-> initial_visited(cid), relationships |-> EmptyDict,
           queue |-> initial_queue(cid)], g, i2l)

---------------------------------------------------------------------------
\* GET /ancestors

\* the whole handler, run without interruption
get_ancestors(q) ==
  LET r == find_entity_id(q, id_to_label, label_to_id)
  IN  IF falsy(r) THEN [status |-> 404, body |-> EmptyDict]
      ELSE [status |-> 200, body |-> get_ancestors_with_depth(r[1], graph, id_to_label)]

\* the handler up to the traversal's first loop test, or to the 404
Start(q) ==
  /\ phase = "serve"
  /\ pc = "idle"
  /\ query' = q
  /\ class_id' = find_entity_id(q, id_to_label, label_to_id)
  /\ IF falsy(class_id')
     THEN /\ response' = [status |-> 404, body |-> EmptyDict]
          /\ UNCHANGED <<pc, queue, visited, relationships>>
     ELSE /\ pc' = "bfs"
          /\ queue' = initial_queue(class_id'[1])
          /\ visited' = initial_visited(class_id'[1])
          /\ relationships' = EmptyDict
          /\ response' = NoResponse
  /\ UNCHANGED <<phase, rows, id_to_label, id_keys, label_to_id, suggestions>>
  /\ UNCHANGED graph

\* one iteration of "while queue"
BfsStep ==
  /\ pc = "bfs"
  /\ queue # <<>>
  /\ LET st == bfs_iteration([visited |-> visited, relationships |-> relationships,
                               queue |-> queue], graph, id_to_label)
     IN  /\ visited' = st.visited
         /\ relationships' = st.relationships
         /\ queue' = st.queue
         /\ graph' = graph_after_get(graph, Head(queue)[1])
  /\ UNCHANGED <<phase, rows, id_to_label, id_keys, label_to_id, pc, query,
                 class_id, response, suggestions>>

\* the queue is empty: the traversal returns and the handler answers
Return ==
  /\ pc = "bfs"
  /\ queue = <<>>
  /\ response' = [status |-> 200, body |-> relationships]
  /\ pc' = "idle"
  /\ visited' = {}
  /\ relationships' = EmptyDict
  /\ UNCHANGED <<phase, rows, index, query, class_id, queue, suggestions>>

---------------------------------------------------------------------------
\* GET /search

search_labels(q, i2l, keys) ==
  LET query_lower == lower(q)
      labels == [i \in 1..Len(keys) |-> i2l[keys[i]]]
  IN  SelectSeq(labels, LAMBDA label : contains(query_lower, lower(label)))

Search(q) ==
  /\ phase = "serve"
  /\ suggestions' = search_labels(q, id_to_label, id_keys)
  /\ UNCHANGED <<phase, rows, index, request>>

---------------------------------------------------------------------------
Init ==
  /\ phase = "load"
  /\ rows = <<>>
  /\ id_to_label = EmptyDict
  /\ id_keys = <<>>
  /\ label_to_id = EmptyDict
  /\ graph = EmptyDict
  /\ pc = "idle"
  /\ query = <<>>
  /\ class_id = None
  /\ queue = <<>>
  /\ visited = {}
  /\ relationships = EmptyDict
  /\ response = NoResponse
  /\ suggestions = <<>>

Next ==
  \/ \E row \in Records : LoadRow(row)
  \/ LoadDone
  \/ \E q \in Queries : Start(q)
  \/ BfsStep
  \/ Return
  \/ \E q \in SearchQueries : Search(q)

Spec == Init /\ [][Next]_vars

\* a running traversal keeps running
FairSpec == Spec /\ WF_vars(BfsStep)

---------------------------------------------------------------------------
\* The parent graph, independently of the traversal

start == class_id[1]

Running == pc = "bfs"

\* the while loop has ended and the handler has not answered yet
Finished == pc = "bfs" /\ queue = <<>>

\* the handler has answered the request for query
Answered == pc = "idle" /\ response.status # 0

ParentSet(x) ==
  IF x \in DOMAIN graph THEN {graph[x][i] : i \in 1..Len(graph[x])} ELSE {}

\* <<x, k>> for every x whose shortest path from the frontier's origin has k
\* parent edges, over the paths that do not enter the sentinel
RECURSIVE Levels(_, _, _)
Levels(frontier, seen, k) ==
  IF frontier = {} THEN {}
  ELSE LET nxt == ((UNION {ParentSet(x) : x \in frontier}) \ {Sentinel}) \ seen
       IN  {<<x, k>> : x \in frontier} \cup Levels(nxt, seen \cup nxt, k + 1)

Hops(s) == Levels({s}, {s}, 0)

\* the ids other than s reachable from s by one or more parent edges
Reach(s) == {h[1] : h \in {g \in Hops(s) : g[2] >= 1}}

HopsTo(s, x) == (CHOOSE h \in Hops(s) : h[1] = x)[2]

\* the reachable ids that carry label l
Carriers(s, l) == {x \in Reach(s) : x \in DOMAIN id_to_label /\ id_to_label[x] = l}

QueueIds == {queue[i][1] : i \in 1..Len(queue)}

---------------------------------------------------------------------------
\* C1: every key of the result is mapped to the minimum number of parent
\* edges from the start to an ancestor carrying that label (read here in the
\* claim's favour: over the paths the traversal follows, the start excluded).
C1_MinimumDepthPerLabel ==
  Finished =>
    \A l \in DOMAIN relationships :
      /\ Carriers(start, l) # {}
      /\ \A x \in Carriers(start, l) : relationships[l] <= HopsTo(start, x)

\* C2 as claimed: neither the id of the start nor its label is a key.
C2_StartNeverAKey ==
  Running =>
    /\ start \notin DOMAIN relationships
    /\ id_to_label[start] \notin DOMAIN relationships

\* C2 as amended: the start itself is never recorded or enqueued again, even
\* through a cycle: the only queue entry for it is the initial one at depth 0
\* and every key is the label of a visited id other than the start.
C2_StartNeverRecorded ==
  Running =>
    /\ \A i \in 1..Len(queue) : queue[i][1] = start => queue[i][2] = 0
    /\ \A l \in DOMAIN relationships :
         /\ relationships[l] >= 1
         /\ \E x \in visited \ {start} : x \in DOMAIN id_to_label /\ id_to_label[x] = l

\* a finished traversal over a cycle that leads back to the start
C2_Witness ==
  /\ Finished
  /\ relationships # EmptyDict
  /\ \E x \in visited \ {start} : start \in ParentSet(x)

\* C3 as claimed: the sentinel identifier is never a key of the result.
C3_SentinelNeverAKey == Running => Sentinel \notin DOMAIN relationships

\* C3 as amended: the sentinel is never visited, enqueued or recorded as a
\* parent: every key is the label of a visited id other than the sentinel.
C3_SentinelNeverRecorded ==
  Running =>
    /\ Sentinel \in visited => start = Sentinel
    /\ \A i \in 1..Len(queue) : queue[i][1] = Sentinel => queue[i][2] = 0
    /\ \A l \in DOMAIN relationships :
         \E x \in visited \ {Sentinel} : x \in DOMAIN id_to_label /\ id_to_label[x] = l

\* a finished traversal in which two visited ids list the sentinel as a parent
C3_Witness ==
  /\ Finished
  /\ start # Sentinel
  /\ relationships # EmptyDict
  /\ \E x, y \in visited : x # y /\ Sentinel \in ParentSet(x) /\ Sentinel \in ParentSet(y)

---------------------------------------------------------------------------
\* Resolution

Started == pc = "bfs" \/ response.status # 0

IdHit(q) == strip(q) \in DOMAIN id_to_label

LabelHit(q) == lower(strip(q)) \in DOMAIN label_to_id

\* C4: find_entity_id returns the trimmed query whenever it is a key of
\* id_to_label, whatever label_to_id holds for the lower-cased query; the
\* label lookup decides only when the id lookup misses.
C4_IdMatchFirst ==
  Started =>
    /\ IdHit(query) => class_id = Some(strip(query))
    /\ (~IdHit(query) /\ LabelHit(query)) => class_id = Some(label_to_id[lower(strip(query))])
    /\ (~IdHit(query) /\ ~LabelHit(query)) => class_id = None

\* the query is an id and, lower-cased, a label of a different id
C4_Witness ==
  /\ Started
  /\ IdHit(query)
  /\ LabelHit(query)
  /\ label_to_id[lower(strip(query))] # strip(query)

\* C9: the handler answers 404 exactly when the trimmed query matches neither
\* an id nor, lower-cased, a label; every query the resolver matches gets the
\* traversal's mapping.
C9_NotFoundIffNoMatch ==
  Answered =>
    /\ response.status = 404 <=> (~IdHit(query) /\ ~LabelHit(query))
    /\ (IdHit(query) \/ LabelHit(query)) => response.status = 200

---------------------------------------------------------------------------
\* Termination

AllIds == (DOMAIN graph) \cup UNION {ParentSet(x) : x \in DOMAIN graph}

\* the ids not yet visited plus the queue entries still to process
Measure == Cardinality(AllIds \ visited) + Len(queue)

\* the ids appended to the queue by a step that popped its head
Added == {queue'[i][1] : i \in Len(queue)..Len(queue')}

C5_Step ==
  (pc = "bfs" /\ queue' # queue) =>
    /\ Added \cap visited = {}
    /\ Cardinality(Added) = Len(queue') - Len(queue) + 1
    /\ visited' = visited \cup Added
    /\ Measure' < Measure

\* C5: the traversal terminates on every graph, cycles and self-loops
\* included: an iteration enqueues only ids never enqueued before, each once,
\* so the count of unvisited ids plus queue entries falls with every
\* iteration, and a running traversal reaches the end of its loop.
C5_Terminates == [][C5_Step]_vars /\ (Running ~> Finished)

\* a finished traversal that met a self-loop and a cycle back to the start
C5_Witness ==
  /\ Finished
  /\ \E x \in visited : x \in ParentSet(x)
  /\ \E x \in visited \ {start} : start \in ParentSet(x) /\ x \in ParentSet(start)

---------------------------------------------------------------------------
\* Load

cid_of(r) == strip(r.id)

norm_label_of(r) == lower(strip(r.label))

\* the trimmed tokens of a parents field, none for an empty field
tokens_of(r) ==
  IF strip(r.parents) = <<>> THEN <<>>
  ELSE LET toks == split(strip(r.parents))
       IN  [i \in 1..Len(toks) |-> strip(toks[i])]

LastWithId(i) == \A j \in (i + 1)..Len(rows) : cid_of(rows[j]) # cid_of(rows[i])

LastWithLabel(i) ==
  \A j \in (i + 1)..Len(rows) : norm_label_of(rows[j]) # norm_label_of(rows[i])

\* C6: graph[id] is the token list of the parents field of the most recent
\* row with that id, also when the id occurs in several rows.
C6_GraphHoldsLastRow ==
  \A i \in 1..Len(rows) :
    /\ cid_of(rows[i]) \in DOMAIN graph
    /\ LastWithId(i) => graph[cid_of(rows[i])] = tokens_of(rows[i])

\* C7: label_to_id maps each normalized label to the id of the last row, in
\* source order, that carries it, and has no other key.
C7_LastLabelWins ==
  /\ DOMAIN label_to_id = {norm_label_of(rows[i]) : i \in 1..Len(rows)}
  /\ \A i \in 1..Len(rows) :
       LastWithLabel(i) => label_to_id[norm_label_of(rows[i])] = cid_of(rows[i])

\* two rows with different ids whose labels differ only in case and spacing
C7_Witness ==
  \E i, j \in 1..Len(rows) :
    /\ i < j
    /\ norm_label_of(rows[i]) = norm_label_of(rows[j])
    /\ rows[i].label # rows[j].label
    /\ cid_of(rows[i]) # cid_of(rows[j])

---------------------------------------------------------------------------
---------------------------------------------------------------------------
C10_Frame ==
  phase = "serve" =>
    /\ id_to_label' = id_to_label
    /\ label_to_id' = label_to_id
    /\ graph' = graph
    /\ id_keys' = id_keys

\* C10: once load has completed, no step of any handler changes id_to_label,
\* label_to_id or graph, and the answer to a query is the one an
\* uninterrupted run on the loaded index gives for that argument.
C10_IndexReadOnly ==
  [][C10_Frame]_vars /\ [](Answered => response = get_ancestors(query))

\* a traversal that looked up an id absent from graph, with a search answered
\* while it ran
C10_Witness ==
  /\ Finished
  /\ suggestions # <<>>
  /\ \E x \in visited : x \notin DOMAIN graph

====
